---- MODULE Spec2Model ----
(***************************************************************************)
(* A model of three components of go-p2p:                                  *)
(*   - the Kademlia XOR cache            (src/p/kademlia/cache.go)         *)
(*   - the fragmenting swarm             (src/p/dynmux/swarm.go, 79..321)  *)
(*   - the Noise secure swarm            (src/unnamed/part_001)            *)
(* Each component has its own specification over its own variables; the    *)
(* variables of the other components stay at their initial values.         *)
(***************************************************************************)
EXTENDS Integers, Sequences, FiniteSets, TLC

VARIABLES
    kc,         \* the Cache struct: locus, minPerBucket, count, max, buckets
    last,       \* the last cache call: its name, arguments and return value,
                \* and for a Put the cache as it was before the eviction
    hist,       \* the keys Put so far, in order (scenario runs only)
    tx,         \* the sending fragmenting swarm: its msgIDs counters
    tell,       \* the last fragmenting Tell: its arguments and the frames it sent
    wire,       \* frames handed to the lower swarm and not yet delivered
    rx,         \* the receiving fragmenting swarm: aggs, the aggregators, and
                \* what its upper tell handler has been called with
    handlers,   \* the running handleTell invocations of the receiver
    arrived,    \* how many frames the lower swarm has handed to the receiver
    clock,      \* the time and the sweeper's next tick, in seconds
    calls,      \* the concurrent Tell calls of the fragmenting swarm: the
                \* address, the id taken, whether the parts have been sent
    ns,         \* the Noise swarm: lowerToSession and the sessions it points to
    dial,       \* the running secure Tell: its place in withAnyReadySession
    slept,      \* the last backoffTime call: its arguments, the jitter drawn
                \* and the duration returned, in microseconds
    looked,     \* the last LookupPublicKey call: its arguments and its answer
    below       \* the running fromBelow: its place in the loop, its session

cacheVars == <<kc, last, hist>>

fragVars == <<tx, tell, wire, rx, handlers, arrived, clock, calls>>

noiseVars == <<ns, dial, slept, looked, below>>

vars == <<kc, last, hist, tx, tell, wire, rx, handlers, arrived, clock, calls, ns, dial, slept, looked, below>>

Nil == "nil"

\* a nil *Entry, as a key
NoKey == <<>>

(***************************************************************************)
(* Bytes and byte strings                                                  *)
(***************************************************************************)

RECURSIVE XorBits(_, _, _)
XorBits(a, b, n) ==
    IF n = 0 THEN 0
    ELSE (((a % 2) + (b % 2)) % 2) + 2 * XorBits(a \div 2, b \div 2, n - 1)

\* XORBytes(dst, a, b): dst[i] = a[i] ^ b[i]
XORBytes(a, b) == [i \in 1..Len(a) |-> XorBits(a[i], b[i], 8)]

RECURSIVE ByteLeading0s(_, _)
ByteLeading0s(x, n) ==
    IF n = 0 THEN 0
    ELSE IF x >= 128 THEN 0
    ELSE 1 + ByteLeading0s((2 * x) % 256, n - 1)

\* Leading0s(x): the number of zero bits before the first one bit of x
RECURSIVE Leading0s(_)
Leading0s(x) ==
    IF x = <<>> THEN 0
    ELSE IF Head(x) = 0 THEN 8 + Leading0s(Tail(x))
    ELSE ByteLeading0s(Head(x), 8)

(***************************************************************************)
(* Kademlia XOR cache                                                      *)
(***************************************************************************)

\* bounds of the cache runs
MaxMax == 3
MaxMinPerBucket == 2

\* one-byte keys: 0x80 and 0xC0 share the farthest bucket of locus 0x00
Keys == {<<128>>, <<192>>, <<64>>, <<32>>, <<16>>}
Loci == {<<0>>, <<192>>}
Values == {"v1", "v2"}

EmptyMap == [k \in {} |-> Nil]

MapPut(m, k, e) == [x \in DOMAIN m \cup {k} |-> IF x = k THEN e ELSE m[x]]

MapDelete(m, k) == [x \in DOMAIN m \ {k} |-> m[x]]

MapLen(m) == Cardinality(DOMAIN m)

NewCache(locus, max, minPerBucket) ==
    [locus |-> locus, minPerBucket |-> minPerBucket, count |-> 0,
     max |-> max, buckets |-> <<>>]

bucketIndex(c, key) == Leading0s(XORBytes(c.locus, key))

\* the bucket of key, 0-based index i held at buckets[i + 1]; a nil map reads as empty
bucket(c, key) ==
    LET i == bucketIndex(c, key)
    IN  IF i < Len(c.buckets) THEN c.buckets[i + 1] ELSE EmptyMap

Get(c, key) ==
    LET b == bucket(c, key)
    IN  IF key \in DOMAIN b THEN b[key] ELSE Nil

Contains(c, key) == Get(c, key) # Nil

Count(c) == c.count

IsFull(c) == c.count >= c.max

\* Put, lines 46..56: create buckets up to lz, count a new key, store the entry
RECURSIVE GrowBuckets(_, _)
GrowBuckets(bs, lz) ==
    IF Len(bs) <= lz THEN GrowBuckets(Append(bs, EmptyMap), lz) ELSE bs

Insert(c, key, v) ==
    LET lz == bucketIndex(c, key)
        bs == GrowBuckets(c.buckets, lz)
        b  == bs[lz + 1]
    IN  [c EXCEPT !.buckets = [bs EXCEPT ![lz + 1] = MapPut(b, key, v)],
                  !.count = IF key \in DOMAIN b THEN c.count ELSE c.count + 1]

\* evict, lines 194..200: the first bucket with more than minPerBucket entries
\* that is not empty, or -1
EvictIndexLast(c) ==
    LET ok == {i \in 0..(Len(c.buckets) - 1) :
                 /\ MapLen(c.buckets[i + 1]) > c.minPerBucket
                 /\ MapLen(c.buckets[i + 1]) # 0}
    IN  IF ok = {} THEN -1 ELSE CHOOSE i \in ok : \A j \in ok : j <= i

EvictIndexAtFloor(c) ==
    LET ok == {i \in 0..(Len(c.buckets) - 1) :
                 /\ MapLen(c.buckets[i + 1]) >= c.minPerBucket
                 /\ MapLen(c.buckets[i + 1]) # 0}
    IN  IF ok = {} THEN -1 ELSE CHOOSE i \in ok : \A j \in ok : i <= j

EvictIndex(c) ==
    LET ok == {i \in 0..(Len(c.buckets) - 1) :
                 /\ MapLen(c.buckets[i + 1]) > c.minPerBucket
                 /\ MapLen(c.buckets[i + 1]) # 0}
    IN  IF ok = {} THEN -1 ELSE CHOOSE i \in ok : \A j \in ok : i <= j

\* evict: every outcome [c, evicted]; getOne picks any key of the bucket
EvictNoCount(c) ==
    LET n == EvictIndex(c)
    IN  IF n < 0 THEN {[c |-> c, evicted |-> NoKey]}
        ELSE {[c |-> [c EXCEPT !.buckets[n + 1] = MapDelete(@, k)],
               evicted |-> k] : k \in DOMAIN c.buckets[n + 1]}

evict(c) ==
    LET n == EvictIndex(c)
    IN  IF n < 0 THEN {[c |-> c, evicted |-> NoKey]}
        ELSE {[c |-> [c EXCEPT !.buckets[n + 1] = MapDelete(@, k),
                               !.count = c.count - 1],
               evicted |-> k] : k \in DOMAIN c.buckets[n + 1]}

\* Put: every outcome [c, evicted]
PutNoEvict(c, key, v) == {[c |-> Insert(c, key, v), evicted |-> NoKey]}

Put(c, key, v) ==
    LET c1 == Insert(c, key, v)
    IN  IF c1.count > c1.max THEN evict(c1)
        ELSE {[c |-> c1, evicted |-> NoKey]}

\* Delete: [c, deleted]
Delete(c, key) ==
    LET b == bucket(c, key)
        i == bucketIndex(c, key)
    IN  IF key \notin DOMAIN b THEN [c |-> c, deleted |-> NoKey]
        ELSE [c |-> [c EXCEPT !.buckets[i + 1] = MapDelete(@, key),
                              !.count = c.count - 1],
              deleted |-> key]

WouldPut(c, key) ==
    LET i == bucketIndex(c, key)
    IN  IF c.count + 1 <= c.max \/ i >= Len(c.buckets) THEN TRUE
        ELSE \E j \in 0..(i - 1) : MapLen(c.buckets[j + 1]) < c.minPerBucket

WouldAdd(c, key) == IF Contains(c, key) THEN FALSE ELSE WouldPut(c, key)

AcceptingPrefixLen(c) ==
    IF c.count + 1 < c.max THEN 0
    ELSE LET ok == {i \in 0..(Len(c.buckets) - 1) :
                      MapLen(c.buckets[i + 1]) > c.minPerBucket}
         IN  IF ok = {} THEN Len(c.buckets)
             ELSE (CHOOSE i \in ok : \A j \in ok : i <= j) + 1

\* bytes.Compare(a, b) < 0 for byte strings of the same length
RECURSIVE BytesLess(_, _)
BytesLess(a, b) ==
    IF a = <<>> THEN FALSE
    ELSE IF Head(a) # Head(b) THEN Head(a) < Head(b)
    ELSE BytesLess(Tail(a), Tail(b))

\* the orders in which a range over a map can yield its keys
Orders(b) ==
    {o \in [1..MapLen(b) -> DOMAIN b] : \A i, j \in 1..MapLen(b) : o[i] = o[j] => i = j}

\* Closest's loop over the entries in order o, from position i: e the loop
\* variable (one variable for the whole loop, go 1.15), minDist (NoKey for nil),
\* taken whether closestEntry = &e has been assigned
RECURSIVE ClosestLoop(_, _, _, _)
ClosestLoop(o, i, key, st) ==
    IF i > Len(o) THEN st
    ELSE LET dist == XORBytes(o[i], key)
             take == st.minDist = NoKey \/ BytesLess(dist, st.minDist)
         IN  ClosestLoop(o, i + 1, key,
                 [e |-> o[i],
                  minDist |-> IF take THEN dist ELSE st.minDist,
                  taken |-> st.taken \/ take])

\* Closest: the keys of the entries it can return, NoKey for nil; the pointer
\* returned is &e, read after the loop
Closest(c, key) ==
    LET b == bucket(c, key)
    IN  {IF st.taken THEN st.e ELSE NoKey :
            st \in {ClosestLoop(o, 1, key, [e |-> NoKey, minDist |-> NoKey, taken |-> FALSE]) :
                        o \in Orders(b)}}

(***************************************************************************)
(* Fragmenting swarm: framing                                              *)
(***************************************************************************)

\* const Overhead = 3 * binary.MaxVarintLen32
MaxVarintLen32 == 5
FragOverhead == 3 * MaxVarintLen32

\* p2p.VecBytes: the bytes of an IOVec ([][]byte), concatenated
RECURSIVE VecBytes(_)
VecBytes(v) ==
    IF Len(v) = 0 THEN <<>>
    ELSE IF Len(v) = 1 THEN v[1]
    ELSE LET h == Len(v) \div 2
         IN  VecBytes(SubSeq(v, 1, h)) \o VecBytes(SubSeq(v, h + 1, Len(v)))

\* binary.PutUvarint: 7 bits a byte, low bits first, 0x80 on all but the last
RECURSIVE PutUvarint(_)
PutUvarint(x) ==
    IF x < 128 THEN <<x>> ELSE <<(x % 128) + 128>> \o PutUvarint(x \div 128)

\* binary.Uvarint from byte i (0-based) on: [val, n], n <= 0 on a short or an
\* overflowing buffer
RECURSIVE UvarintFrom(_, _, _, _)
UvarintFrom(buf, i, x, mult) ==
    IF i >= Len(buf) THEN [val |-> 0, n |-> 0]
    ELSE LET b == buf[i + 1]
         IN  IF b < 128
             THEN IF i > 9 \/ (i = 9 /\ b > 1)
                  THEN [val |-> 0, n |-> 0 - (i + 1)]
                  ELSE [val |-> x + b * mult, n |-> i + 1]
             ELSE UvarintFrom(buf, i + 1, x + (b % 128) * mult, mult * 128)

Uvarint(buf) == UvarintFrom(buf, 0, 0, 1)

Uint8(x) == x % 256

appendUvarint(b, x) == Append(b, PutUvarint(x))

\* newMessage: the IOVec  uvarint(id) uvarint(part) uvarint(total) data...
newMessage(id, part, total, data) ==
    appendUvarint(appendUvarint(appendUvarint(<<>>, id), part), total) \o data

\* parseMessage: [err, id, part, total, data]
ParseError == [err |-> TRUE, id |-> 0, part |-> 0, total |-> 0, data |-> <<>>]

parseMessage(x) ==
    LET f1 == Uvarint(x)
        x1 == SubSeq(x, f1.n + 1, Len(x))
        f2 == Uvarint(x1)
        x2 == SubSeq(x1, f2.n + 1, Len(x1))
        f3 == Uvarint(x2)
    IN  IF f1.n < 1 THEN ParseError
        ELSE IF f2.n < 1 THEN ParseError
        ELSE IF f3.n < 1 THEN ParseError
        ELSE IF Uint8(f2.val) >= Uint8(f3.val) THEN ParseError
        ELSE [err |-> FALSE, id |-> f1.val, part |-> Uint8(f2.val),
              total |-> Uint8(f3.val), data |-> SubSeq(x2, f3.n + 1, Len(x2))]

(***************************************************************************)
(* Fragmenting swarm: Tell                                                 *)
(***************************************************************************)

Min(a, b) == IF a < b THEN a ELSE b

\* the number of parts Tell computes for a vector of len elements
TellTotal(len, underMTU) ==
    LET q == (len \div underMTU) + (IF len % underMTU > 0 THEN 1 ELSE 0)
    IN  IF q = 0 THEN 1 ELSE q

\* part number `part` of the call: data[start:end] framed by newMessage
TellPart(id, part, total, data, underMTU) ==
    LET start == underMTU * part
        end == Min(start + underMTU, Len(data))
    IN  newMessage(id, Uint8(part), Uint8(total), SubSeq(data, start + 1, end))

\* the frames Tell hands to the lower swarm's Tell, in part order
TellFrames(id, data, lowerMTU) ==
    LET underMTU == lowerMTU - FragOverhead
        total == TellTotal(Len(data), underMTU)
    IN  IF total = 1 THEN <<newMessage(id, 0, 1, data)>>
        ELSE [i \in 1..total |-> TellPart(id, i - 1, total, data, underMTU)]

msgID(t, addr) == IF addr \in DOMAIN t.msgIDs THEN t.msgIDs[addr] ELSE 0

(***************************************************************************)
(* Fragmenting swarm: reassembly                                           *)
(***************************************************************************)

\* a slot of aggregator.parts that holds no part yet (a nil []byte): no byte is -1
NoPart == <<0 - 1>>

\* newAggregator: parts is a nil slice (made: whether parts has been allocated)
newAggregator(now) == [createdAt |-> now, made |-> FALSE, parts |-> <<>>]

\* handleTell, lines 187..193: the aggregator of key, created if there is none.
\* [rx, agg]: agg is the index of the aggregator among rx.heap
lookupAgg(r, key, now) ==
    IF key \in DOMAIN r.aggs THEN [rx |-> r, agg |-> r.aggs[key]]
    ELSE LET a == Len(r.heap) + 1
         IN  [rx |-> [r EXCEPT !.heap = Append(@, newAggregator(now)),
                               !.aggs = MapPut(@, key, a)],
              agg |-> a]

AllParts(parts) == \A i \in 1..Len(parts) : parts[i] # NoPart

\* aggregator.addPart: [rx, full, panic]; an index beyond the slots panics
addPart(r, a, part, total, data) ==
    LET old == r.heap[a]
        parts == IF ~old.made THEN [i \in 1..total |-> NoPart] ELSE old.parts
    IN  IF part >= Len(parts)
        THEN [rx |-> [r EXCEPT !.heap[a].parts = parts, !.heap[a].made = TRUE],
              full |-> FALSE, panic |-> TRUE]
        ELSE LET new == [parts EXCEPT ![part + 1] = data]
             IN  [rx |-> [r EXCEPT !.heap[a].parts = new, !.heap[a].made = TRUE],
                  full |-> AllParts(new), panic |-> FALSE]

\* aggregator.assemble: the parts concatenated; a slot never filled adds nothing
RECURSIVE ConcatParts(_)
ConcatParts(parts) ==
    IF Len(parts) = 0 THEN <<>>
    ELSE IF Len(parts) = 1 THEN (IF parts[1] = NoPart THEN <<>> ELSE parts[1])
    ELSE LET h == Len(parts) \div 2
         IN  ConcatParts(SubSeq(parts, 1, h))
             \o ConcatParts(SubSeq(parts, h + 1, Len(parts)))

assemble(r, a) ==
    IF ~r.heap[a].made THEN <<>> ELSE ConcatParts(r.heap[a].parts)

\* next(&p2p.Message{...}): the upper handler is called. agg is the aggregator
\* the payload came from (0: a single part), whole whether it had every part.
callNext(r, src, id, payload, a) ==
    [r EXCEPT !.delivered = Append(@,
        [src |-> src, id |-> id, payload |-> payload, agg |-> a,
         whole |-> IF a = 0 THEN TRUE
                   ELSE r.heap[a].made /\ AllParts(r.heap[a].parts)])]

deleteAgg(r, key) == [r EXCEPT !.aggs = MapDelete(@, key)]

\* handleTell run alone from start to end on frame x from src
handleTell(r, src, x, now) ==
    LET m == parseMessage(x)
        key == <<src, m.id>>
        l == lookupAgg(r, key, now)
        p == addPart(l.rx, l.agg, m.part, m.total, m.data)
    IN  IF m.err THEN r
        ELSE IF m.total = 1 THEN callNext(r, src, m.id, m.data, 0)
        ELSE IF p.panic THEN [l.rx EXCEPT !.panicked = TRUE]
        ELSE IF p.full
             THEN deleteAgg(callNext(p.rx, src, m.id, assemble(p.rx, l.agg), l.agg),
                            key)
        ELSE p.rx

\* cleanup: every aggregator created before now - 5 s leaves the map
AggTTL == 5
SweepPeriod == 60

cleanupKeepsAll(r, now) == r

cleanup(r, now) ==
    [r EXCEPT !.aggs = [k \in {k \in DOMAIN r.aggs :
                                  ~(r.heap[r.aggs[k]].createdAt < now - AggTTL)}
                          |-> r.aggs[k]]]

(***************************************************************************)
(* MTU of the three overlays over a lower swarm whose MTU is lowerMTU      *)
(***************************************************************************)

\* fragswarm swarm.MTU: the mtu given to New
fragMTU(t, lowerMTU) == t.mtu

\* noiseswarm: const Overhead = 4 + 16
NoiseOverhead == 4 + 16

noiseMTUNoOverhead(lowerMTU) == lowerMTU

\* noiseswarm Swarm.MTU
noiseMTU(lowerMTU) == lowerMTU - NoiseOverhead

\* dynmux: the bytes of the channel id in front of every message
channelSize == 4

\* dynmux baseSwarm.MTU
baseSwarmMTU(lowerMTU) == lowerMTU - channelSize

(***************************************************************************)
(* Noise swarm: the session map                                            *)
(***************************************************************************)

\* const MaxDialAttempts = 10
MaxDialAttempts == 10

\* time.Millisecond and MaxDialBackoffDuration = time.Second, in microseconds
Millisecond == 1000
MaxDialBackoffDuration == 1000000

\* mrand.Intn(100) draws from 0..99
JitterRange == 100

\* backoffTime(n, max) when mrand.Intn draws jitter
backoffTime(n, max, jitter) ==
    LET d0 == Millisecond * (2 ^ n)
        d == IF d0 > max THEN max ELSE d0
    IN  ((d * jitter) \div 100) + d

\* a session: its role, and what isReady, isErrored, isExpired and
\* getRemotePeerID answer
newSession(initiator) ==
    [initiator |-> initiator, ready |-> FALSE, errored |-> FALSE,
     expired |-> FALSE, remote |-> "", old |-> FALSE]

sessionKeyNoRole(raddr, initiator) == <<raddr, TRUE>>

sessionKey(raddr, initiator) == <<raddr, initiator>>

\* the sessions the map points to
Mapped(n) == {n.lowerToSession[k] : k \in DOMAIN n.lowerToSession}

\* the sessions something still points to: the map, or the running Tell
Referenced(n, keep) == Mapped(n) \cup (keep \ {0})

\* a session nothing points to any more is garbage
Collect(n, keep) ==
    [n EXCEPT !.sessions = [x \in Referenced(n, keep) |-> n.sessions[x]]]

\* the session objects that can be live at once
MaxSessions == 6

\* newSession's pointer: one that no live session has
FreshSession(n) ==
    CHOOSE x \in 1..MaxSessions :
        /\ x \notin DOMAIN n.sessions
        /\ \A y \in 1..(x - 1) : y \in DOMAIN n.sessions

getOrCreateSessionKeepErrored(n, lowerRaddr, initiator) ==
    LET key == sessionKey(lowerRaddr, initiator)
        x == FreshSession(n)
    IN  IF /\ key \in DOMAIN n.lowerToSession
           /\ ~n.sessions[n.lowerToSession[key]].expired
        THEN [ns |-> n, sess |-> n.lowerToSession[key], created |-> FALSE]
        ELSE [ns |-> [n EXCEPT !.sessions = MapPut(@, x, newSession(initiator)),
                        !.lowerToSession = MapPut(@, key, x)],
              sess |-> x, created |-> TRUE]

\* getOrCreateSession: [ns, sess, created]
getOrCreateSession(n, lowerRaddr, initiator) ==
    LET key == sessionKey(lowerRaddr, initiator)
        x == FreshSession(n)
    IN  IF /\ key \in DOMAIN n.lowerToSession
           /\ ~n.sessions[n.lowerToSession[key]].expired
           /\ ~n.sessions[n.lowerToSession[key]].errored
        THEN [ns |-> n, sess |-> n.lowerToSession[key], created |-> FALSE]
        ELSE [ns |-> [n EXCEPT !.sessions = MapPut(@, x, newSession(initiator)),
                        !.lowerToSession = MapPut(@, key, x)],
              sess |-> x, created |-> TRUE]

deleteSessionNoop(n, lowerRaddr, x) == n

\* deleteSession: the entry of x's role leaves the map if it is x
deleteSession(n, lowerRaddr, x) ==
    LET key == sessionKey(lowerRaddr, n.sessions[x].initiator)
    IN  IF key \in DOMAIN n.lowerToSession /\ n.lowerToSession[key] = x
        THEN [n EXCEPT !.lowerToSession = MapDelete(@, key)]
        ELSE n

getAnyReadySessionIgnoreExpiry(n, lowerRaddr) ==
    {n.lowerToSession[k] : k \in
        {k \in {sessionKey(lowerRaddr, TRUE), sessionKey(lowerRaddr, FALSE)} :
            /\ k \in DOMAIN n.lowerToSession
            /\ n.sessions[n.lowerToSession[k]].ready}}

\* getAnyReadySession: the sessions it can return (the two are shuffled);
\* nil when the set is empty
getAnyReadySession(n, lowerRaddr) ==
    {n.lowerToSession[k] : k \in
        {k \in {sessionKey(lowerRaddr, TRUE), sessionKey(lowerRaddr, FALSE)} :
            /\ k \in DOMAIN n.lowerToSession
            /\ ~n.sessions[n.lowerToSession[k]].expired
            /\ n.sessions[n.lowerToSession[k]].ready}}

\* LookupPublicKey: what it can answer, with the swarm as the call leaves it;
\* the remote public key is named by the remote peer id it hashes to
LookupPublicKey(n, id, lowerRaddr) ==
    LET ready == getAnyReadySession(n, lowerRaddr)
    IN  IF ready = {}
        THEN {[ret |-> "public_key_not_found", key |-> "", ns |-> n]}
        ELSE {IF n.sessions[x].remote = id
              THEN [ret |-> "ok", key |-> n.sessions[x].remote, ns |-> n]
              ELSE [ret |-> "public_key_not_found", key |-> "", ns |-> n]
                : x \in ready}

\* one round of fromBelow's loop, lines 110..132: the session of the message's
\* direction is fetched or created and given the message; up is "ok" (nil
\* error, the loop ends), "err" (an error, the session not errored: return) or
\* "errored" (an error that leaves the session errored: it is deleted and the
\* loop goes on)
fromBelowRound(n, src, initiator, up) ==
    LET g == getOrCreateSession(n, src, initiator)
    IN  IF up = "errored"
        THEN deleteSession([g.ns EXCEPT !.sessions[g.sess].errored = TRUE], src, g.sess)
        ELSE g.ns

\* fromBelow: at most two rounds
fromBelow(n, src, initiator, up1, up2) ==
    LET n1 == fromBelowRound(n, src, initiator, up1)
    IN  IF up1 = "errored" THEN fromBelowRound(n1, src, initiator, up2) ELSE n1

\* withAnyReadySession line 164, return err: err is the variable declared at
\* line 151; the loop's  sess, err := s.dialSession(...)  declares its own, so
\* the one returned is still nil
DialLoopResult == "ok"

(***************************************************************************)
(* Initial states of the components                                        *)
(***************************************************************************)

NoCall(c) == [op |-> "none", key |-> NoKey, val |-> Nil, ret |-> NoKey, mid |-> c]

CacheIdle ==
    /\ kc = NewCache(<<0>>, 1, 0)
    /\ last = NoCall(kc)
    /\ hist = <<>>

NoTell == [called |-> FALSE, addr |-> "", data |-> <<>>, lowerMTU |-> 0,
           id |-> 0, frames |-> <<>>]

\* the MTU the fragmenting swarm is configured with
FragMTU == 1024

newSwarm ==
    /\ tx = [mtu |-> FragMTU, msgIDs |-> EmptyMap]
    /\ rx = [aggs |-> EmptyMap, heap |-> <<>>, delivered |-> <<>>,
             panicked |-> FALSE]
    /\ calls = <<>>

FragIdle ==
    /\ newSwarm
    /\ tell = NoTell
    /\ wire = <<>>
    /\ handlers = <<>>
    /\ arrived = 0
    /\ clock = [now |-> 0, nextSweep |-> 0]

\* ctxDone: the context of the call is cancelled or past its deadline;
\* lateDial: dialSession was called after that;
\* retried: the dial loop went round; checked: a session's peer id was compared; mapped: that session was in the
\* session map when the call returned; fnSess: the session as fn was given it
NoDial ==
    [pc |-> "idle", id |-> "", addr |-> "", i |-> 0, sess |-> 0, fnCalls |-> 0,
     ret |-> "", retried |-> FALSE, ctxDone |-> FALSE, lateDial |-> FALSE,
     checked |-> FALSE, mapped |-> FALSE,
     fnSess |-> newSession(TRUE)]

\* matched: a ready session that is not expired was stored for the address
\* with the requested peer id when the call was made; changed: the call left
\* the session map or a session different
NoLookup == [called |-> FALSE, id |-> "", addr |-> "", ret |-> "", key |-> "",
             matched |-> FALSE, changed |-> FALSE]

\* i: the loop variable; sess: the session of this round, or of the one
\* before until the next is fetched; fed: the sessions given the message;
\* nexts: the calls of the upper handler; nilNext: one of them had a nil
\* payload; created, replaced: getOrCreateSession made the session, in place
\* of an expired or errored one; firstErr: the first session reported an
\* error and was errored; retryMapped: the first session was in the map when
\* the second was fetched; sameAgain: the second session was the first;
\* retryOld: the second session was there when the message arrived
NoBelow ==
    [pc |-> "idle", src |-> "", initiator |-> FALSE, i |-> 0, sess |-> 0,
     fed |-> 0, nexts |-> 0, nilNext |-> FALSE, created |-> FALSE,
     replaced |-> FALSE, firstErr |-> FALSE, retryMapped |-> FALSE,
     sameAgain |-> FALSE, retryOld |-> FALSE]

\* noiseswarm.New: an empty session map
NoiseIdle ==
    /\ ns = [lowerToSession |-> EmptyMap, sessions |-> EmptyMap]
    /\ dial = NoDial
    /\ slept = [n |-> 0, jitter |-> 0, d |-> 0]
    /\ looked = NoLookup
    /\ below = NoBelow

(***************************************************************************)
(* The cache under any sequence of Put and Delete                          *)
(***************************************************************************)

CacheInit ==
    /\ \E locus \in Loci, max \in 1..MaxMax, m \in (0 - 1)..MaxMinPerBucket :
          kc = NewCache(locus, max, m)
    /\ last = NoCall(kc)
    /\ hist = <<>>
    /\ FragIdle
    /\ NoiseIdle

CachePut(key, v) ==
    /\ \E r \in Put(kc, key, v) :
          /\ kc' = r.c
          /\ last' = [op |-> "Put", key |-> key, val |-> v, ret |-> r.evicted,
                      mid |-> Insert(kc, key, v)]
    /\ UNCHANGED <<hist, fragVars, noiseVars>>

CacheDelete(key) ==
    /\ LET r == Delete(kc, key)
       IN  /\ kc' = r.c
           /\ last' = [op |-> "Delete", key |-> key, val |-> Nil,
                       ret |-> r.deleted, mid |-> r.c]
    /\ UNCHANGED <<hist, fragVars, noiseVars>>

CacheNext ==
    \/ \E key \in Keys, v \in Values : CachePut(key, v)
    \/ \E key \in Keys : CacheDelete(key)

SpecCache == CacheInit /\ [][CacheNext]_vars

(***************************************************************************)
(* Scenario S6: locus 0x00, max 4, the keys 0x80 0x40 0x20 0x10 0x08       *)
(***************************************************************************)

MaxPuts == 5

S6Keys == <<(<<128>>), (<<64>>), (<<32>>), (<<16>>), (<<8>>)>>

S6Init ==
    /\ \E m \in {0, 1} : kc = NewCache(<<0>>, 4, m)
    /\ last = NoCall(kc)
    /\ hist = <<>>
    /\ FragIdle
    /\ NoiseIdle

S6Put(key) ==
    /\ Len(hist) < MaxPuts
    /\ \E r \in Put(kc, key, "v1") :
          /\ kc' = r.c
          /\ last' = [op |-> "Put", key |-> key, val |-> "v1", ret |-> r.evicted,
                      mid |-> Insert(kc, key, "v1")]
    /\ hist' = Append(hist, key)
    /\ UNCHANGED <<fragVars, noiseVars>>

S6Next == \E i \in 1..Len(S6Keys) : S6Put(S6Keys[i])

SpecS6 == S6Init /\ [][S6Next]_vars

(***************************************************************************)
(* One Tell through the fragmenting swarm, over a lower swarm that delivers *)
(* every frame once, unmodified, to a receiver that handles one at a time   *)
(***************************************************************************)

MaxSlices == 257

\* a payload of n one-byte slices
Slices(n) == [i \in 1..n |-> <<i % 256>>]

\* payloads whose slices hold more than one byte
WideVecs == { <<(<<1, 2, 3>>)>>, <<(<<1, 2>>), (<<3, 4, 5>>)>> }

TellVecs == {Slices(n) : n \in 0..MaxSlices} \cup WideVecs

LowerMTUs == {FragOverhead + 1, FragOverhead + 2}

RTInit ==
    /\ CacheIdle
    /\ NoiseIdle
    /\ newSwarm
    /\ \E data \in TellVecs, m \in LowerMTUs :
          tell = [NoTell EXCEPT !.addr = "b", !.data = data, !.lowerMTU = m]
    /\ wire = <<>>
    /\ handlers = <<>>
    /\ arrived = 0
    /\ clock = [now |-> 0, nextSweep |-> SweepPeriod]

\* swarm.Tell(ctx, addr, data): the id is taken, the parts are framed and
\* handed to the lower swarm, which carries each as one datagram
FragTell ==
    /\ ~tell.called
    /\ LET id == msgID(tx, tell.addr)
           frames == TellFrames(id, tell.data, tell.lowerMTU)
       IN  /\ tx' = [tx EXCEPT !.msgIDs = MapPut(@, tell.addr, id + 1)]
           /\ tell' = [tell EXCEPT !.called = TRUE, !.id = id, !.frames = frames]
           /\ wire' = [i \in 1..Len(frames) |-> VecBytes(frames[i])]
    /\ UNCHANGED <<cacheVars, noiseVars, calls, rx, handlers, arrived, clock>>

\* the lower swarm's next frame reaches handleTell
RTHandle ==
    /\ wire # <<>>
    /\ ~rx.panicked
    /\ rx' = handleTell(rx, "a", Head(wire), clock.now)
    /\ wire' = Tail(wire)
    /\ arrived' = arrived + 1
    /\ UNCHANGED <<cacheVars, noiseVars, calls, tx, tell, handlers, clock>>

RTNext == FragTell \/ RTHandle

SpecFragRT == RTInit /\ [][RTNext]_vars

(***************************************************************************)
(* The receiving fragmenting swarm: frames from the lower swarm handled by *)
(* concurrent handleTell invocations, the sweeper, the clock               *)
(***************************************************************************)

MaxHandlers == 2
MaxInbound == 3
MaxTime == 60

\* the clock advances past the aggregator TTL, or to the sweeper's next tick
TickSteps == {AggTTL + 1, SweepPeriod - (AggTTL + 1)}

\* frames of source "a", msg_id 0: part/total 0/1, 0/2, 1/2, 0/3, 1/3, 2/3,
\* each with one byte of data that names it, and a frame cut inside a varint
PartFrame(part, total) ==
    VecBytes(newMessage(0, part, total, <<(<<16 * total + part>>)>>))

InboundFrames ==
    {PartFrame(p, t) : p \in 0..2, t \in 1..3} \cup {<<128>>}

IdleHandler == [pc |-> "idle", src |-> "", m |-> ParseError, agg |-> 0]

FragInit ==
    /\ CacheIdle
    /\ NoiseIdle
    /\ newSwarm
    /\ tell = NoTell
    /\ wire = <<>>
    /\ handlers = [h \in 1..MaxHandlers |-> IdleHandler]
    /\ arrived = 0
    /\ clock = [now |-> 0, nextSweep |-> 0]

\* the lower swarm calls handleTell(x, next): lines 171..186
Arrive(h, x) ==
    /\ ~rx.panicked
    /\ arrived < MaxInbound
    /\ handlers[h].pc = "idle"
    /\ arrived' = arrived + 1
    /\ LET m == parseMessage(x)
       IN  IF m.err THEN UNCHANGED <<rx, handlers>>
           ELSE IF m.total = 1
           THEN /\ rx' = callNext(rx, "a", m.id, m.data, 0)
                /\ UNCHANGED handlers
           ELSE /\ handlers' = [handlers EXCEPT ![h] =
                                   [pc |-> "lookup", src |-> "a", m |-> m, agg |-> 0]]
                /\ UNCHANGED rx
    /\ UNCHANGED <<cacheVars, noiseVars, calls, tx, tell, wire, clock>>

\* lines 187..193, under s.mu
Lookup(h) ==
    /\ ~rx.panicked
    /\ handlers[h].pc = "lookup"
    /\ LET l == lookupAgg(rx, <<handlers[h].src, handlers[h].m.id>>, clock.now)
       IN  /\ rx' = l.rx
           /\ handlers' = [handlers EXCEPT ![h].pc = "addPart", ![h].agg = l.agg]
    /\ UNCHANGED <<cacheVars, noiseVars, calls, tx, tell, wire, arrived, clock>>

\* line 194, under the aggregator's mutex
AddPart(h) ==
    /\ ~rx.panicked
    /\ handlers[h].pc = "addPart"
    /\ LET m == handlers[h].m
           p == addPart(rx, handlers[h].agg, m.part, m.total, m.data)
       IN  IF p.panic
           THEN /\ rx' = [p.rx EXCEPT !.panicked = TRUE]
                /\ UNCHANGED handlers
           ELSE /\ rx' = p.rx
                /\ handlers' = [handlers EXCEPT ![h] =
                      IF p.full THEN [@ EXCEPT !.pc = "next"] ELSE IdleHandler]
    /\ UNCHANGED <<cacheVars, noiseVars, calls, tx, tell, wire, arrived, clock>>

\* lines 195..199: next is called with agg.assemble()
CallNext(h) ==
    /\ ~rx.panicked
    /\ handlers[h].pc = "next"
    /\ rx' = callNext(rx, handlers[h].src, handlers[h].m.id,
                      assemble(rx, handlers[h].agg), handlers[h].agg)
    /\ handlers' = [handlers EXCEPT ![h].pc = "delete"]
    /\ UNCHANGED <<cacheVars, noiseVars, calls, tx, tell, wire, arrived, clock>>

\* lines 200..202, under s.mu
DeleteAgg(h) ==
    /\ ~rx.panicked
    /\ handlers[h].pc = "delete"
    /\ rx' = deleteAgg(rx, <<handlers[h].src, handlers[h].m.id>>)
    /\ handlers' = [handlers EXCEPT ![h] = IdleHandler]
    /\ UNCHANGED <<cacheVars, noiseVars, calls, tx, tell, wire, arrived, clock>>

\* cleanupLoop: cleanup at once and then at every tick of the minute ticker
Cleanup ==
    /\ ~rx.panicked
    /\ clock.now = clock.nextSweep
    /\ rx' = cleanup(rx, clock.now)
    /\ clock' = [clock EXCEPT !.nextSweep = clock.now + SweepPeriod]
    /\ UNCHANGED <<cacheVars, noiseVars, calls, tx, tell, wire, handlers, arrived>>

Tick(d) ==
    /\ clock.now + d <= clock.nextSweep
    /\ clock.now + d <= MaxTime
    /\ clock' = [clock EXCEPT !.now = clock.now + d]
    /\ UNCHANGED <<cacheVars, noiseVars, calls, tx, tell, wire, rx, handlers, arrived>>

FragNext ==
    \/ \E h \in 1..MaxHandlers, x \in InboundFrames : Arrive(h, x)
    \/ \E h \in 1..MaxHandlers : Lookup(h)
    \/ \E h \in 1..MaxHandlers : AddPart(h)
    \/ \E h \in 1..MaxHandlers : CallNext(h)
    \/ \E h \in 1..MaxHandlers : DeleteAgg(h)
    \/ Cleanup
    \/ \E d \in TickSteps : Tick(d)

SpecFrag == FragInit /\ [][FragNext]_vars

(***************************************************************************)
(* Concurrent Tell calls of one sender to the addresses of one receiver:   *)
(* each takes its id under s.mu, then sends its parts, which the lower     *)
(* swarm delivers in any order                                             *)
(***************************************************************************)

\* Tell calls in one run
MaxCalls == 3

\* the addresses the receiver listens on
DestAddrs == {"b", "c"}

\* the payload of the c-th call: two slices that name the call
CallData(c) == <<(<<c>>), (<<c>>)>>

IDsInit ==
    /\ CacheIdle
    /\ FragIdle
    /\ NoiseIdle

\* Tell lines 130..134: the id is read and the counter incremented under s.mu
TellTakeID(addr) ==
    /\ Len(calls) < MaxCalls
    /\ LET id == msgID(tx, addr)
       IN  /\ tx' = [tx EXCEPT !.msgIDs = MapPut(@, addr, id + 1)]
           /\ calls' = Append(calls, [addr |-> addr, id |-> id, sent |-> FALSE])
    /\ UNCHANGED <<cacheVars, noiseVars, tell, wire, rx, handlers, arrived, clock>>

\* Tell lines 136..161: the parts are framed and handed to the lower swarm
TellSend(c) ==
    /\ ~calls[c].sent
    /\ LET frames == TellFrames(calls[c].id, CallData(c), FragOverhead + 1)
       IN  wire' = wire \o [i \in 1..Len(frames) |-> VecBytes(frames[i])]
    /\ calls' = [calls EXCEPT ![c].sent = TRUE]
    /\ UNCHANGED <<cacheVars, noiseVars, tx, tell, rx, handlers, arrived, clock>>

\* ServeTells: any frame in flight reaches handleTell
IDsHandle(i) ==
    /\ ~rx.panicked
    /\ rx' = handleTell(rx, "a", wire[i], clock.now)
    /\ wire' = SubSeq(wire, 1, i - 1) \o SubSeq(wire, i + 1, Len(wire))
    /\ arrived' = arrived + 1
    /\ UNCHANGED <<cacheVars, noiseVars, calls, tx, tell, handlers, clock>>

IDsNext ==
    \/ \E addr \in DestAddrs : TellTakeID(addr)
    \/ \E c \in 1..Len(calls) : TellSend(c)
    \/ \E i \in 1..Len(wire) : IDsHandle(i)

SpecIDs == IDsInit /\ [][IDsNext]_vars

(***************************************************************************)
(* The Noise swarm: a caller's Tell, the remote side finishing or failing  *)
(* handshakes, sessions expiring, the cleanup loop                         *)
(***************************************************************************)

LowerAddrs == {"x"}
PeerIDs == {"Q", "R"}

\* the peer that answers at a lower address
PeerAt(lowerRaddr) == IF lowerRaddr = "x" THEN "Q" ELSE "R"

NoiseInit ==
    /\ CacheIdle
    /\ FragIdle
    /\ NoiseIdle

\* Tell(ctx, addr, data), withAnyReadySession lines 141..142: check the cache
TellBegin(id, lowerRaddr) ==
    /\ dial.pc \in {"idle", "done"}
    /\ LET ready == getAnyReadySession(ns, lowerRaddr)
           d == [NoDial EXCEPT !.id = id, !.addr = lowerRaddr]
       IN  \/ /\ ready = {}
              /\ dial' = [d EXCEPT !.pc = "dial"]
           \/ \E x \in ready : dial' = [d EXCEPT !.pc = "check", !.sess = x]
    /\ UNCHANGED <<ns, cacheVars, fragVars, slept, looked, below>>

\* lines 143..148 and 155..160: the peer id is compared; a wrong peer's session
\* is deleted, the right one is given to fn, whose error (or nil) is returned
CheckPeerNoCompare ==
    /\ dial.pc = "check"
    /\ \E r \in {"ok", "send_error"} :
          dial' = [dial EXCEPT !.pc = "done", !.ret = r, !.sess = 0,
                               !.i = 0,
                               !.checked = TRUE,
                               !.mapped = dial.sess \in Mapped(ns),
                               !.fnSess = ns.sessions[dial.sess],
                               !.fnCalls = dial.fnCalls + 1]
    /\ ns' = Collect(ns, {})
    /\ UNCHANGED <<cacheVars, fragVars, slept, looked, below>>

CheckPeer ==
    /\ dial.pc = "check"
    /\ IF ns.sessions[dial.sess].remote # dial.id
       THEN /\ ns' = Collect(deleteSession(ns, dial.addr, dial.sess), {})
            /\ dial' = [dial EXCEPT !.pc = "done", !.ret = "wrong_peer", !.sess = 0,
                                    !.i = 0,
                                    !.checked = TRUE,
                                    !.mapped = dial.sess \in
                                        Mapped(deleteSession(ns, dial.addr, dial.sess))]
       ELSE /\ \E r \in {"ok", "send_error"} :
                  dial' = [dial EXCEPT !.pc = "done", !.ret = r, !.sess = 0,
                                       !.i = 0,
                                       !.checked = TRUE,
                                       !.mapped = dial.sess \in Mapped(ns),
                                       !.fnSess = ns.sessions[dial.sess],
                                       !.fnCalls = dial.fnCalls + 1]
            /\ ns' = Collect(ns, {})
    /\ UNCHANGED <<cacheVars, fragVars, slept, looked, below>>

\* dialSession lines 170..176: the session is fetched or created; the
\* handshake of a created one is started, and may fail
DialSession ==
    /\ dial.pc = "dial"
    /\ dial.i < MaxDialAttempts
    /\ LET g == getOrCreateSession(ns, dial.addr, TRUE)
       IN  \/ /\ dial' = [dial EXCEPT !.pc = "wait", !.sess = g.sess,
                                    !.lateDial = @ \/ dial.ctxDone]
              /\ ns' = Collect(g.ns, {g.sess})
           \/ /\ g.created
              /\ dial' = [dial EXCEPT !.pc = "sleep", !.sess = 0,
                                      !.lateDial = @ \/ dial.ctxDone]
              /\ ns' = Collect(deleteSession(g.ns, dial.addr, g.sess), {})
    /\ UNCHANGED <<cacheVars, fragVars, slept, looked, below>>

\* dialSession lines 177..180: waitReady returns nil once the session is ready
WaitReady ==
    /\ dial.pc = "wait"
    /\ ns.sessions[dial.sess].ready
    /\ dial' = [dial EXCEPT !.pc = "check"]
    /\ UNCHANGED <<ns, cacheVars, fragVars, slept, looked, below>>

\* waitReady returns an error: the handshake failed or the context ended
WaitFails ==
    /\ dial.pc = "wait"
    /\ ~ns.sessions[dial.sess].ready
    /\ dial' = [dial EXCEPT !.pc = "sleep", !.sess = 0]
    /\ ns' = Collect(ns, {})
    /\ UNCHANGED <<cacheVars, fragVars, slept, looked, below>>

\* line 162: the backoff sleep, then the next round of the loop
Backoff ==
    /\ dial.pc = "sleep"
    /\ dial' = [dial EXCEPT !.pc = "dial", !.i = dial.i + 1, !.retried = TRUE]
    /\ UNCHANGED <<ns, cacheVars, fragVars, slept, looked, below>>

\* line 164: every attempt failed
DialLoopEnds ==
    /\ dial.pc = "dial"
    /\ dial.i >= MaxDialAttempts
    /\ dial' = [dial EXCEPT !.pc = "done", !.ret = DialLoopResult, !.i = 0]
    /\ UNCHANGED <<ns, cacheVars, fragVars, slept, looked, below>>

\* the context given to Tell is cancelled, or its deadline passes, while the
\* dial loop runs
CtxDone ==
    /\ dial.pc \in {"dial", "wait", "sleep"}
    /\ ~dial.ctxDone
    /\ dial' = [dial EXCEPT !.ctxDone = TRUE]
    /\ UNCHANGED <<ns, cacheVars, fragVars, slept, looked, below>>

\* what session.upward can answer
Upwards == {"ok", "err", "errored"}

\* ServeTells: a message of the lower swarm reaches fromBelow
FromBelow(src, initiator) ==
    /\ \E up1 \in Upwards, up2 \in Upwards \ {"err"} :
          ns' = Collect(fromBelow(ns, src, initiator, up1, up2), {dial.sess, below.sess})
    /\ UNCHANGED <<dial, cacheVars, fragVars, slept, looked, below>>

\* the remote side completes the handshake of a session
HandshakeDone(x) ==
    /\ ~ns.sessions[x].ready
    /\ ~ns.sessions[x].errored
    /\ \E k \in DOMAIN ns.lowerToSession :
          /\ ns.lowerToSession[k] = x
          /\ ns' = [ns EXCEPT !.sessions[x].ready = TRUE,
                              !.sessions[x].remote = PeerAt(k[1])]
    /\ UNCHANGED <<dial, cacheVars, fragVars, slept, looked, below>>

\* a session's handshake or decryption fails
SessionErrors(x) ==
    /\ ~ns.sessions[x].errored
    /\ ns' = [ns EXCEPT !.sessions[x].errored = TRUE]
    /\ UNCHANGED <<dial, cacheVars, fragVars, slept, looked, below>>

\* MaxSessionLife passes since a session was created
SessionExpires(x) ==
    /\ ~ns.sessions[x].expired
    /\ ns' = [ns EXCEPT !.sessions[x].expired = TRUE]
    /\ UNCHANGED <<dial, cacheVars, fragVars, slept, looked, below>>

\* cleanupLoop: expired sessions leave the map
NoiseCleanup ==
    /\ \E k \in DOMAIN ns.lowerToSession : ns.sessions[ns.lowerToSession[k]].expired
    /\ ns' = Collect(
          [ns EXCEPT !.lowerToSession =
              [k \in {k \in DOMAIN ns.lowerToSession :
                        ~ns.sessions[ns.lowerToSession[k]].expired}
                 |-> ns.lowerToSession[k]]],
          {dial.sess, below.sess})
    /\ UNCHANGED <<dial, cacheVars, fragVars, slept, looked, below>>

NoiseNext ==
    \/ \E id \in PeerIDs, a \in LowerAddrs : TellBegin(id, a)
    \/ CheckPeer
    \/ DialSession
    \/ WaitReady
    \/ WaitFails
    \/ Backoff
    \/ DialLoopEnds
    \/ CtxDone
    \/ \E x \in DOMAIN ns.sessions : HandshakeDone(x)
    \/ \E x \in DOMAIN ns.sessions : SessionErrors(x)
    \/ \E x \in DOMAIN ns.sessions : SessionExpires(x)
    \/ NoiseCleanup
    \/ \E a \in LowerAddrs : FromBelow(a, FALSE)

SpecNoise == NoiseInit /\ [][NoiseNext]_vars

(***************************************************************************)
(* The receiver, one handleTell at a time, with the sweeper and the clock  *)
(***************************************************************************)

\* ServeTells: the lower swarm's frame x reaches handleTell
TTLHandle(x) ==
    /\ arrived < MaxInbound
    /\ ~rx.panicked
    /\ rx' = handleTell(rx, "a", x, clock.now)
    /\ arrived' = arrived + 1
    /\ UNCHANGED <<cacheVars, noiseVars, calls, tx, tell, wire, handlers, clock>>

TTLNext ==
    \/ \E x \in InboundFrames : TTLHandle(x)
    \/ Cleanup
    \/ \E d \in TickSteps : Tick(d)

SpecTTL == FragInit /\ [][TTLNext]_vars

(***************************************************************************)
(* The receiver alone, one handleTell at a time, on frames whose part and  *)
(* total take values around one byte's range, and on malformed frames      *)
(***************************************************************************)

\* frames handled in one run
MaxParsed == 3

HeaderValues == {0, 1, 2, 255, 256, 257}

Malformed == {<<>>, <<128>>, <<0>>, <<0, 1>>, <<0, 1, 128>>}

\* msg_id 0, one byte of data that names the frame
WideFrame(p, t) == VecBytes(newMessage(0, p, t, <<(<<(p % 7) + 7 * (t % 7)>>)>>))

ParseFrames ==
    {WideFrame(p, t) : p \in HeaderValues, t \in HeaderValues} \cup Malformed

ParseInit ==
    /\ CacheIdle
    /\ FragIdle
    /\ NoiseIdle

\* ServeTells: the lower swarm's frame x reaches handleTell
ParseHandle(x) ==
    /\ arrived < MaxParsed
    /\ ~rx.panicked
    /\ rx' = handleTell(rx, "a", x, clock.now)
    /\ arrived' = arrived + 1
    /\ UNCHANGED <<cacheVars, noiseVars, calls, tx, tell, wire, handlers, clock>>

ParseNext == \E x \in ParseFrames : ParseHandle(x)

SpecParse == ParseInit /\ [][ParseNext]_vars

(***************************************************************************)
(* backoffTime over the rounds of the dial loop and every jitter           *)
(***************************************************************************)

BackoffInit ==
    /\ CacheIdle
    /\ FragIdle
    /\ NoiseIdle

\* line 162: time.Sleep(backoffTime(i, MaxDialBackoffDuration))
BackoffTime(n, jitter) ==
    /\ slept' = [n |-> n, jitter |-> jitter,
                 d |-> backoffTime(n, MaxDialBackoffDuration, jitter)]
    /\ UNCHANGED <<ns, dial, looked, below, cacheVars, fragVars>>

BackoffNext ==
    \E n \in 0..(MaxDialAttempts - 1), jitter \in 0..(JitterRange - 1) :
        BackoffTime(n, jitter)

SpecBackoff == BackoffInit /\ [][BackoffNext]_vars

(***************************************************************************)
(* The session map alone: messages of either direction from the lower     *)
(* swarm, sessions failing and expiring, the cleanup loop                  *)
(***************************************************************************)

\* LookupPublicKey(ctx, Addr{ID: id, Addr: lowerRaddr})
LookupKey(id, lowerRaddr) ==
    /\ \E r \in LookupPublicKey(ns, id, lowerRaddr) :
          /\ ns' = r.ns
          /\ looked' = [called |-> TRUE, id |-> id, addr |-> lowerRaddr,
                        ret |-> r.ret, key |-> r.key,
                        matched |-> \E k \in DOMAIN ns.lowerToSession :
                            /\ k[1] = lowerRaddr
                            /\ ns.sessions[ns.lowerToSession[k]].ready
                            /\ ~ns.sessions[ns.lowerToSession[k]].expired
                            /\ ns.sessions[ns.lowerToSession[k]].remote = id,
                        changed |-> r.ns # ns]
    /\ UNCHANGED <<dial, slept, below, cacheVars, fragVars>>

SessionsNext ==
    \/ \E id \in PeerIDs, a \in LowerAddrs : LookupKey(id, a)
    \/ \E a \in LowerAddrs, initiator \in BOOLEAN : FromBelow(a, initiator)
    \/ \E x \in DOMAIN ns.sessions : HandshakeDone(x)
    \/ \E x \in DOMAIN ns.sessions : SessionErrors(x)
    \/ \E x \in DOMAIN ns.sessions : SessionExpires(x)
    \/ NoiseCleanup

SpecSessions == NoiseInit /\ [][SessionsNext]_vars

(***************************************************************************)
(* One inbound message in fromBelow, step by step, while other messages    *)
(* arrive, sessions fail and expire, and the cleanup loop runs; whether a  *)
(* session's handshake is done plays no part in fromBelow                  *)
(***************************************************************************)

\* old: the session was there when the message being handled arrived
Aged(n, old) ==
    [n EXCEPT !.sessions =
        [x \in DOMAIN n.sessions |-> [n.sessions[x] EXCEPT !.old = old]]]

\* line 109: the rounds of fromBelow's loop
BelowRounds == 2

\* what session.upward returns: the payload and the error
UpPayloads == {"nil", "payload"}
UpErrors == {"nil", "err", "errored"}

\* fromBelow lines 101..108: the message is parsed; a short one is dropped
BelowArrive(src, initiator, parsed) ==
    /\ below.pc \in {"idle", "done"}
    /\ below' = [NoBelow EXCEPT !.pc = IF parsed THEN "get" ELSE "done",
                                !.src = src, !.initiator = initiator]
    /\ ns' = Aged(ns, parsed)
    /\ UNCHANGED <<dial, slept, looked, cacheVars, fragVars>>

\* line 110: sess, _ := s.getOrCreateSession(msg.Src, initiator)
BelowGet ==
    /\ below.pc = "get"
    /\ LET g == getOrCreateSession(ns, below.src, below.initiator)
           key == sessionKey(below.src, below.initiator)
       IN  /\ ns' = Collect(g.ns, {dial.sess, g.sess})
           /\ below' = [below EXCEPT
                  !.pc = "upward", !.sess = g.sess,
                  !.created = g.created,
                  !.replaced = /\ key \in DOMAIN ns.lowerToSession
                               /\ \/ ns.sessions[ns.lowerToSession[key]].expired
                                  \/ ns.sessions[ns.lowerToSession[key]].errored,
                  !.retryMapped = below.i > 0 /\ below.sess \in Mapped(ns),
                  !.sameAgain = below.i > 0 /\ g.sess = below.sess,
                  !.retryOld = below.i > 0 /\ g.ns.sessions[g.sess].old]
    /\ UNCHANGED <<dial, slept, looked, cacheVars, fragVars>>

\* the call is over: its locals are gone
BelowReturn(b) ==
    [b EXCEPT !.pc = "done", !.src = "", !.initiator = FALSE, !.sess = 0,
              !.i = 0, !.created = FALSE, !.replaced = FALSE]

\* lines 111..132: the session is given the message; on an error the session
\* is asked whether it is errored; a payload that is not nil goes to next
BelowUpward(up, err) ==
    /\ below.pc = "upward"
    /\ LET b == [below EXCEPT !.fed = @ + 1]
           n == IF err = "errored"
                THEN [ns EXCEPT !.sessions[below.sess].errored = TRUE]
                ELSE ns
       IN  IF err # "nil"
           THEN IF n.sessions[below.sess].errored
                THEN /\ ns' = n
                     /\ below' = [b EXCEPT !.pc = "delete",
                                           !.firstErr = @ \/ below.i = 0]
                ELSE /\ ns' = Aged(Collect(n, {dial.sess}), FALSE)
                     /\ below' = BelowReturn(b)
           ELSE /\ ns' = Aged(Collect(n, {dial.sess}), FALSE)
                /\ below' = BelowReturn(
                      IF up # "nil"
                      THEN [b EXCEPT !.nexts = @ + 1,
                                     !.nilNext = @ \/ up = "nil"]
                      ELSE b)
    /\ UNCHANGED <<dial, slept, looked, cacheVars, fragVars>>

BelowDeleteKeep ==
    /\ below.pc = "delete"
    /\ ns' = IF below.i + 1 < BelowRounds THEN ns ELSE Aged(ns, FALSE)
    /\ below' = IF below.i + 1 < BelowRounds
                THEN [below EXCEPT !.pc = "get", !.i = @ + 1]
                ELSE BelowReturn(below)
    /\ UNCHANGED <<dial, slept, looked, cacheVars, fragVars>>

\* lines 114..115: s.deleteSession(msg.Src, sess); continue
BelowDelete ==
    /\ below.pc = "delete"
    /\ ns' = IF below.i + 1 < BelowRounds
             THEN Collect(deleteSession(ns, below.src, below.sess),
                          {dial.sess, below.sess})
             ELSE Aged(Collect(deleteSession(ns, below.src, below.sess),
                               {dial.sess}), FALSE)
    /\ below' = IF below.i + 1 < BelowRounds
                THEN [below EXCEPT !.pc = "get", !.i = @ + 1]
                ELSE BelowReturn(below)
    /\ UNCHANGED <<dial, slept, looked, cacheVars, fragVars>>

\* the steps of the running fromBelow
BelowStep ==
    \/ BelowGet
    \/ \E up \in UpPayloads, err \in UpErrors : BelowUpward(up, err)
    \/ BelowDelete

BelowNext ==
    \/ \E a \in LowerAddrs, initiator \in BOOLEAN, parsed \in BOOLEAN :
          BelowArrive(a, initiator, parsed)
    \/ BelowGet
    \/ \E up \in UpPayloads, err \in UpErrors : BelowUpward(up, err)
    \/ BelowDelete
    \/ \E a \in LowerAddrs, initiator \in BOOLEAN : FromBelow(a, initiator)
    \/ \E x \in DOMAIN ns.sessions : SessionErrors(x)
    \/ \E x \in DOMAIN ns.sessions : SessionExpires(x)
    \/ NoiseCleanup

SpecBelow == NoiseInit /\ [][BelowNext]_vars

\* the goroutine that runs fromBelow is scheduled
SpecBelowLive == SpecBelow /\ WF_vars(BelowStep)

(***************************************************************************)
(* Properties of the cache                                                 *)
(***************************************************************************)

BucketIndexes(c) == 0..(Len(c.buckets) - 1)

RECURSIVE SumLens(_)
SumLens(bs) == IF bs = <<>> THEN 0 ELSE MapLen(Head(bs)) + SumLens(Tail(bs))

StoredKeys(c) == UNION {DOMAIN c.buckets[i + 1] : i \in BucketIndexes(c)}

NothingToEvict(c) ==
    \A i \in BucketIndexes(c) : MapLen(c.buckets[i + 1]) <= c.minPerBucket

\* C5 as claimed: after each Put, Count() <= max + 1.
C5_CountAtMostMaxPlusOne == last.op = "Put" => Count(kc) <= kc.max + 1

\* C5 amended: Count() exceeds max only while no bucket holds more than
\* minPerBucket entries, so that nothing can be evicted; with minPerBucket <= 0
\* Count() never exceeds max.  Count() <= max + 1 is not guaranteed.
C5_CountWithinMaxOrFloor ==
    /\ Count(kc) <= kc.max \/ NothingToEvict(kc)
    /\ kc.minPerBucket <= 0 => Count(kc) <= kc.max

C5_Witness == last.op = "Put" /\ Count(kc) > kc.max + 1 /\ NothingToEvict(kc)

\* C6: the stored count is the sum of the bucket sizes, and every stored key
\* lies in the bucket numbered by the leading zero bits of XOR(locus, key).
C6_CountConsistent ==
    /\ kc.count = SumLens(kc.buckets)
    /\ \A i \in BucketIndexes(kc) : \A k \in DOMAIN kc.buckets[i + 1] :
          Leading0s(XORBytes(kc.locus, k)) = i

\* a Delete of a key whose bucket was never materialized, in a cache that holds entries
C6_Witness ==
    /\ last.op = "Delete"
    /\ last.ret = NoKey
    /\ bucketIndex(kc, last.key) >= Len(kc.buckets)
    /\ kc.count > 0

\* After a Put (last.mid the cache before the eviction, kc the cache after
\* the call): what the call did when its eviction takes the lowest bucket of cand.
PutEvictedFrom(cand) ==
    LET mid == last.mid
        n == CHOOSE i \in cand : \A j \in cand : i <= j
    IN  IF mid.count > mid.max /\ cand # {}
        THEN /\ last.ret \in DOMAIN mid.buckets[n + 1]
             /\ kc = [mid EXCEPT !.buckets[n + 1] = MapDelete(@, last.ret),
                                 !.count = mid.count - 1]
        ELSE /\ last.ret = NoKey
             /\ kc = mid

Exceeding(c) ==
    {i \in BucketIndexes(c) : MapLen(c.buckets[i + 1]) > c.minPerBucket}

ExceedingNonEmpty(c) ==
    {i \in Exceeding(c) : MapLen(c.buckets[i + 1]) # 0}

\* C7 as claimed: a Put that raises count above max removes exactly one entry,
\* from the lowest-index bucket whose size exceeds minPerBucket; when no bucket
\* exceeds it nothing is evicted and Put returns nil.
C7_EvictLowestExceeding ==
    last.op = "Put" => PutEvictedFrom(Exceeding(last.mid))

\* C7 amended: the entry comes from the lowest-index NON-EMPTY bucket whose
\* size exceeds minPerBucket (the same bucket whenever minPerBucket >= 0).
C7_EvictLowestNonEmptyExceeding ==
    last.op = "Put" => PutEvictedFrom(ExceedingNonEmpty(last.mid))

\* a Put evicted an entry while a bucket closer to the locus holds entries
C7_Witness ==
    /\ last.op = "Put"
    /\ last.ret # NoKey
    /\ \E i \in BucketIndexes(kc) :
          i > bucketIndex(kc, last.ret) /\ MapLen(kc.buckets[i + 1]) > 0

\* C8 as claimed: with max 4 and minPerBucket 1 the fifth Put of scenario S6
\* evicts 0x80 and leaves the four other keys.
C8_S6EvictsFarthest ==
    (hist = S6Keys /\ kc.minPerBucket = 1) =>
        /\ last.ret = <<128>>
        /\ Count(kc) = 4
        /\ StoredKeys(kc) = {<<64>>, <<32>>, <<16>>, <<8>>}

\* C8 amended: with minPerBucket 1 every bucket holds one entry, none exceeds
\* the floor, the fifth Put evicts nothing and the cache holds all five keys;
\* the claimed outcome is that of minPerBucket 0.
C8_S6KeepsAllFive ==
    /\ (hist = S6Keys /\ kc.minPerBucket = 1) =>
          /\ last.ret = NoKey
          /\ Count(kc) = 5
          /\ StoredKeys(kc) = {<<128>>, <<64>>, <<32>>, <<16>>, <<8>>}
    /\ (hist = S6Keys /\ kc.minPerBucket = 0) =>
          /\ last.ret = <<128>>
          /\ Count(kc) = 4
          /\ StoredKeys(kc) = {<<64>>, <<32>>, <<16>>, <<8>>}

C8_Witness == hist = S6Keys /\ kc.minPerBucket = 1 /\ kc.max = 4 /\ kc.locus = <<0>>

\* Put(key) fits without eviction, or its eviction removes an entry
PutFitsOrEvicts(c, key) ==
    LET mid == Insert(c, key, "v1")
    IN  mid.count <= mid.max \/ \E r \in evict(mid) : r.evicted # NoKey

\* C9 as claimed: WouldPut(k) is true exactly when Put(k, v) would fit without
\* eviction or trigger an eviction that removes an entry.
C9_WouldPutExact ==
    \A k \in Keys : WouldPut(kc, k) <=> PutFitsOrEvicts(kc, k)

\* C10 as claimed: AcceptingPrefixLen is 0 whenever the cache is not full, and
\* (index of the first bucket exceeding minPerBucket) + 1 when it is full.
C10_AcceptingPrefixLen ==
    /\ ~IsFull(kc) => AcceptingPrefixLen(kc) = 0
    /\ (IsFull(kc) /\ Exceeding(kc) # {}) =>
          AcceptingPrefixLen(kc) =
              (CHOOSE i \in Exceeding(kc) : \A j \in Exceeding(kc) : i <= j) + 1

\* the keys of bucket(k) at the smallest XOR distance to k
NearestInBucket(c, k) ==
    {x \in DOMAIN bucket(c, k) :
        \A y \in DOMAIN bucket(c, k) : ~BytesLess(XORBytes(y, k), XORBytes(x, k))}

\* C11 as claimed: whatever the iteration order, Closest(k) returns the entry
\* of bucket(k) at the smallest XOR distance to k, and nil only when the bucket
\* is empty or not materialized.
C11_ClosestIsNearest ==
    \A k \in Keys : \A r \in Closest(kc, k) :
        IF bucket(kc, k) = EmptyMap THEN r = NoKey
        ELSE r \in NearestInBucket(kc, k)

(***************************************************************************)
(* Properties of the fragmenting swarm                                     *)
(***************************************************************************)

Delivered == rx.delivered

\* C2 as claimed (its safety part): the upper handler is called at most once
\* with the reassembly of a message of a source, and never with the parts of
\* an aggregator that still has an empty slot.
C2_ReassembledAtMostOnce ==
    /\ \A i, j \in 1..Len(Delivered) :
          (/\ i < j
           /\ Delivered[i].agg # 0
           /\ Delivered[j].agg # 0
           /\ Delivered[i].src = Delivered[j].src
           /\ Delivered[i].id = Delivered[j].id)
          => Delivered[i].payload # Delivered[j].payload
    /\ \A i \in 1..Len(Delivered) : Delivered[i].whole

\* the bytes of the payload given to Tell
TellPayload == VecBytes(tell.data)

\* C3 as claimed: for every payload no longer than the swarm's MTU, over a
\* lower swarm that delivers every frame once, the upper handler is called
\* with that payload: with nothing else, and once all frames are in, once.
C3_FragmentationIdentity ==
    Len(TellPayload) <= tx.mtu =>
        /\ \A i \in 1..Len(Delivered) : Delivered[i].payload = TellPayload
        /\ (tell.called /\ wire = <<>>) => Len(Delivered) = 1

CeilDiv(a, b) == (a + b - 1) \div b

\* the header and the data of a frame handed to the lower swarm
SentFrame(i) == tell.frames[i]
SentPart(i) == Uvarint(SentFrame(i)[2]).val
SentTotal(i) == Uvarint(SentFrame(i)[3]).val
SentID(i) == Uvarint(SentFrame(i)[1]).val
SentData(i) == VecBytes(SubSeq(SentFrame(i), 4, Len(SentFrame(i))))

\* C4 as claimed: Tell sends ceil(len / chunk) frames for a payload of len
\* bytes (one for an empty payload), chunk = lower MTU - Overhead; each frame
\* carries at most chunk payload bytes, part numbers 0..total-1, and the same
\* total and msg_id.
C4_TellSplitsByBytes ==
    tell.called =>
        LET chunk == tell.lowerMTU - FragOverhead
            len == Len(TellPayload)
            total == IF len = 0 THEN 1 ELSE CeilDiv(len, chunk)
        IN  /\ Len(tell.frames) = total
            /\ \A i \in 1..Len(tell.frames) :
                  /\ Len(SentData(i)) <= chunk
                  /\ SentPart(i) = i - 1
                  /\ SentTotal(i) = total
                  /\ SentID(i) = tell.id

\* C19 as claimed: each overlay's MTU plus its overhead is at most the MTU of
\* the swarm below it.
C19_MTUMonotone ==
    /\ fragMTU(tx, tell.lowerMTU) + FragOverhead <= tell.lowerMTU
    /\ noiseMTU(tell.lowerMTU) + NoiseOverhead <= tell.lowerMTU
    /\ baseSwarmMTU(tell.lowerMTU) + channelSize <= tell.lowerMTU

\* C19 amended: the Noise swarm and the dynamic-mux channel swarm report the
\* lower MTU less their overhead; the fragmenting swarm reports the mtu it was
\* configured with, whatever the lower MTU, and so can report more than it.
C19_MTUMonotoneBelowFrag ==
    /\ noiseMTU(tell.lowerMTU) + NoiseOverhead <= tell.lowerMTU
    /\ baseSwarmMTU(tell.lowerMTU) + channelSize <= tell.lowerMTU
    /\ fragMTU(tx, tell.lowerMTU) = FragMTU

\* a Tell went through a fragmenting swarm whose MTU is above the lower one
C19_Witness ==
    /\ tell.called
    /\ fragMTU(tx, tell.lowerMTU) + FragOverhead > tell.lowerMTU

\* the aggregators in the map
MappedAggs == {rx.heap[rx.aggs[k]] : k \in DOMAIN rx.aggs}

\* the time of the sweeper's last cleanup
LastSweep == clock.nextSweep - SweepPeriod

\* C18 as claimed: between two sweeps, too, no aggregator older than 5 seconds
\* is in the map: 6 seconds after its creation the aggregator of a message
\* that misses a part is gone.
C18_NoAggregatorPastTTL ==
    clock.now < clock.nextSweep =>
        \A a \in MappedAggs : clock.now - a.createdAt <= AggTTL

\* C18 amended: an aggregator leaves the map at the first sweep that finds it
\* older than 5 seconds, and sweeps are a minute apart: every aggregator in
\* the map was at most 5 seconds old at the last sweep, so it is at most 65
\* seconds old, and a message that misses a part is never delivered.
C18_SweptAtNextTick ==
    /\ \A a \in MappedAggs : a.createdAt >= LastSweep - AggTTL
    /\ clock.now <= clock.nextSweep =>
          \A a \in MappedAggs : clock.now - a.createdAt <= SweepPeriod + AggTTL
    /\ \A i \in 1..Len(Delivered) : Delivered[i].whole

\* two parts of a three-part message are in an aggregator that is still in the
\* map 6 seconds or more after its creation; nothing has been delivered
C18_Witness ==
    /\ clock.now < clock.nextSweep
    /\ Delivered = <<>>
    /\ \E a \in MappedAggs :
          /\ clock.now - a.createdAt > AggTTL
          /\ Len(a.parts) = 3
          /\ Cardinality({i \in 1..3 : a.parts[i] # NoPart}) = 2

\* the three varints of a frame as they are encoded: [ok, part, total]
EncodedHeader(x) ==
    LET f1 == Uvarint(x)
        x1 == SubSeq(x, f1.n + 1, Len(x))
        f2 == Uvarint(x1)
        x2 == SubSeq(x1, f2.n + 1, Len(x1))
        f3 == Uvarint(x2)
    IN  [ok |-> f1.n >= 1 /\ f2.n >= 1 /\ f3.n >= 1, part |-> f2.val, total |-> f3.val]

InvalidFrame(x) ==
    ~EncodedHeader(x).ok \/ EncodedHeader(x).part >= EncodedHeader(x).total

\* C17 as claimed: a frame whose encoded part is not below its encoded total,
\* or whose varints are malformed, changes nothing in the receiver: it is not
\* delivered upward and not stored in an aggregator.
C17_InvalidFramesRejected ==
    \A x \in ParseFrames :
        InvalidFrame(x) => handleTell(rx, "a", x, clock.now) = rx

\* C16 as claimed: no sequence of inbound frames makes handleTell panic.
C16_ReceiveNeverPanics == ~rx.panicked

(***************************************************************************)
(* Properties of the Noise swarm                                           *)
(***************************************************************************)

\* C1 as claimed: a Tell that returns nil has called the function that sends
\* the payload on a ready session; when no session is ready and every dial
\* attempt fails, Tell returns an error.
C1_TellOkMeansSent ==
    (dial.pc = "done" /\ dial.ret = "ok") => dial.fnCalls >= 1

\* C12: a Tell that found a ready session of another peer than the requested
\* one has returned wrong_peer, that session is no longer in the session map,
\* and the send callback was not called.
C12_WrongPeerDeleted ==
    /\ (dial.pc = "done" /\ dial.ret = "wrong_peer") =>
          /\ dial.checked
          /\ ~dial.mapped
          /\ dial.fnCalls = 0
    /\ (dial.pc = "done" /\ dial.checked /\ dial.ret # "wrong_peer") =>
          dial.fnSess.remote = dial.id

C12_Witness ==
    /\ dial.pc = "done"
    /\ dial.ret = "wrong_peer"
    /\ dial.checked
    /\ dial.retried

\* C13: in one withAnyReadySession fn is called at most once, with a session
\* that was ready and whose remote peer is the requested one, however many
\* times dialSession was called.
C13_FnOnceOnReadySession ==
    /\ dial.fnCalls <= 1
    /\ dial.fnCalls = 1 =>
          /\ dial.fnSess.ready
          /\ dial.fnSess.remote = dial.id

C13_Witness ==
    /\ dial.pc = "done"
    /\ dial.fnCalls = 1
    /\ dial.retried

\* C14 as claimed: the time slept between two dial attempts never exceeds
\* MaxDialBackoffDuration, whatever the attempt and the jitter.
C14_BackoffWithinMax == slept.d <= MaxDialBackoffDuration

\* C15 as claimed: once the context of a Tell is done while its dial loop
\* runs, the loop calls dialSession no more, and the Tell whose loop ends
\* without a session returns a cancelled or deadline_exceeded error.
C15_CancelStopsDialing ==
    /\ ~dial.lateDial
    /\ (dial.pc = "done" /\ dial.ctxDone /\ ~dial.checked) =>
          dial.ret \in {"cancelled", "deadline_exceeded"}

\* the lower addresses the session map can be asked about
KeyAddrs == LowerAddrs \cup {"y"}

\* the maps m and n agree on every key but k
SameButFor(m, n, k) ==
    \A j \in (DOMAIN m \cup DOMAIN n) \ {k} :
        j \in DOMAIN m /\ j \in DOMAIN n /\ m[j] = n[j]

\* C20: the map holds one session per (lower address, role), filed under its
\* own role, and no session twice; getOrCreateSession and deleteSession change
\* no entry but the one of the address and role they are called for.
C20_OneSessionPerRole ==
    /\ \A k \in DOMAIN ns.lowerToSession :
          /\ ns.lowerToSession[k] \in DOMAIN ns.sessions
          /\ ns.sessions[ns.lowerToSession[k]].initiator = k[2]
          /\ \A j \in DOMAIN ns.lowerToSession :
                ns.lowerToSession[j] = ns.lowerToSession[k] => j = k
    /\ \A a \in KeyAddrs, initiator \in BOOLEAN :
          SameButFor(ns.lowerToSession,
                     getOrCreateSession(ns, a, initiator).ns.lowerToSession,
                     sessionKey(a, initiator))
    /\ \A a \in KeyAddrs, x \in DOMAIN ns.sessions :
          SameButFor(ns.lowerToSession,
                     deleteSession(ns, a, x).lowerToSession,
                     sessionKey(a, ns.sessions[x].initiator))

\* an initiator and a responder session toward the same lower address
C20_Witness ==
    \E a \in LowerAddrs :
        /\ sessionKey(a, TRUE) \in DOMAIN ns.lowerToSession
        /\ sessionKey(a, FALSE) \in DOMAIN ns.lowerToSession
        /\ ns.lowerToSession[sessionKey(a, TRUE)] # ns.lowerToSession[sessionKey(a, FALSE)]

\* C21 as claimed: LookupPublicKey answers with a key only when a ready
\* session that is not expired is stored for the lower address with the
\* requested peer id, and that key is the session's; when there is no such
\* session it answers public_key_not_found; either way the session map and
\* the sessions are as they were (no session made, no handshake started)
C21_LookupReadOnlySound ==
    looked.called =>
        /\ looked.ret \in {"ok", "public_key_not_found"}
        /\ looked.ret = "ok" => (looked.matched /\ looked.key = looked.id)
        /\ ~looked.matched => looked.ret = "public_key_not_found"
        /\ ~looked.changed

\* a lookup found the key of a ready session of the requested peer
C21_Witness ==
    /\ looked.called
    /\ looked.ret = "ok"
    /\ looked.matched
    /\ looked.addr \in LowerAddrs

\* a session that is neither expired nor errored is stored under the key
LiveAt(n, key) ==
    /\ key \in DOMAIN n.lowerToSession
    /\ ~n.sessions[n.lowerToSession[key]].expired
    /\ ~n.sessions[n.lowerToSession[key]].errored

\* C22 as claimed: getOrCreateSession returns the stored session with
\* created = false exactly when the session stored under (addr, role) is
\* neither expired nor errored, and then changes nothing; otherwise it stores
\* a new session under that key, in place of an expired or errored one if
\* there was one, and returns it with created = true; the session it returns
\* is never expired or errored
C22_GetOrCreateReplacesTerminal ==
    /\ \A a \in LowerAddrs, role \in BOOLEAN :
          LET key == sessionKey(a, role)
              g == getOrCreateSession(ns, a, role)
          IN  /\ ~g.created <=> LiveAt(ns, key)
              /\ ~g.created =>
                    /\ g.sess = ns.lowerToSession[key]
                    /\ g.ns = ns
              /\ g.created =>
                    /\ g.sess \notin DOMAIN ns.sessions
                    /\ g.ns.sessions[g.sess] = newSession(role)
                    /\ \A x \in DOMAIN ns.sessions :
                          g.ns.sessions[x] = ns.sessions[x]
                    /\ SameButFor(g.ns.lowerToSession, ns.lowerToSession, key)
              /\ g.ns.lowerToSession[key] = g.sess
              /\ ~g.ns.sessions[g.sess].expired
              /\ ~g.ns.sessions[g.sess].errored
    /\ below.replaced => below.created

\* fromBelow was handed a new session in place of an expired or errored one
C22_Witness ==
    /\ below.pc = "upward"
    /\ below.replaced
    /\ below.created
    /\ ns.lowerToSession[sessionKey(below.src, below.initiator)] = below.sess

\* what fromBelow has done with the message so far
BelowBounded ==
    /\ below.fed <= BelowRounds
    /\ below.fed > 1 =>
          /\ below.firstErr
          /\ ~below.retryMapped
          /\ ~below.sameAgain
          /\ ~below.retryOld
    /\ below.i > 0 => below.firstErr
    /\ below.nexts <= 1
    /\ ~below.nilNext

\* C23 as claimed: fromBelow gives the message to at most two sessions; the
\* second one, a session made after the message arrived and not the first,
\* gets it only after the first reported an error and was errored, and after
\* the first left the map; the
\* upper handler is called at most once, never with a nil payload; and
\* fromBelow returns
C23_FromBelowBoundedAndReturns ==
    /\ []BelowBounded
    /\ (below.pc \in {"get", "upward", "delete"}) ~> (below.pc = "done")

\* a message went to two sessions and the second one's payload to the handler
C23_Witness ==
    /\ below.pc = "done"
    /\ below.fed = 2
    /\ below.nexts = 1
    /\ below.firstErr

\* the calls that have taken an id for addr
CallsTo(addr) == {c \in 1..Len(calls) : calls[c].addr = addr}

\* the ids taken for an address are 0, 1, 2, ..., one per call, and the
\* counter of the address is their number
IDsInSequence ==
    \A addr \in DestAddrs :
        /\ \A c, d \in CallsTo(addr) : calls[c].id = calls[d].id => c = d
        /\ {calls[c].id : c \in CallsTo(addr)} = 0..(Cardinality(CallsTo(addr)) - 1)
        /\ msgID(tx, addr) = Cardinality(CallsTo(addr))

\* the calls whose parts aggregator a holds
CallsIn(a) ==
    {rx.heap[a].parts[i][1] : i \in {i \in 1..Len(rx.heap[a].parts) :
                                      rx.heap[a].parts[i] # NoPart}}

\* C24 as claimed: every concurrent Tell gets its own id, the ids of an
\* address are 0, 1, 2, ... with none skipped or reused, the counters of the
\* addresses do not depend on each other, and no aggregator of the receiver
\* holds parts of two messages of the sender
C24_NeverMerged ==
    /\ IDsInSequence
    /\ \A a \in 1..Len(rx.heap) : Cardinality(CallsIn(a)) <= 1

====
